---- MODULE Spec2Model ----
(***************************************************************************)
(* The progressive tax bracket engine of equinc (src/src/brackets.rs):     *)
(* bound pairing, schedule construction, forward tax / net, inverse gross, *)
(* and the two-pointer schedule merge, over exact unsigned rationals.      *)
(***************************************************************************)
EXTENDS Integers, Sequences, FiniteSets, TLC

(***************************************************************************)
(* Bounds of the model.                                                    *)
(***************************************************************************)
\* separator values are the integers 0..MaxSep
MaxSep == 2
\* a raw separator list has at most MaxSeps entries
MaxSeps == 2
\* rates are the fractions k/RateDen
RateDen == 4
\* amounts are the fractions k/AmountDen up to MaxSep + 1
AmountDen == 2

(***************************************************************************)
(* Exact unsigned rationals (num::rational::Ratio over unsigned integers). *)
(* A rational is written as the mixed number <<whole, numer, denom>> of    *)
(* value whole + numer / denom, with 0 <= numer < denom and the fraction   *)
(* in lowest terms (an integer has numer 0 and denom 1), so that the       *)
(* amounts of the static tables, whose numerators exceed the machine       *)
(* integers of the checker, can be written.  A computation that panics     *)
(* (unsigned subtraction below zero, division by zero, a failed assertion) *)
(* yields Panic, which every operation propagates.                         *)
(***************************************************************************)
Panic == <<0, 0, 0>>

IsPanic(r) == r = Panic

\* 1 - rate in 64-bit unsigned rationals for rate > 1, without overflow
\* checks: a huge ratio that cannot be written with the integers of the
\* checker.  Also stands for every amount computed from it that keeps its
\* denominator.
Wrapped == <<1, 0, 0>>

\* a rational, as opposed to Panic and Wrapped
IsNumber(r) == r[3] # 0

RECURSIVE GCD(_, _)
GCD(a, b) == IF b = 0 THEN a ELSE GCD(b, a % b)

\* whole + numer / denom for any numer >= 0, in lowest terms
Norm(whole, numer, denom) ==
    LET g == GCD(denom, numer % denom)
    IN <<whole + (numer \div denom), (numer % denom) \div g, denom \div g>>

\* Ratio::new: reduce to lowest terms; a zero denominator panics
Ratio(n, d) == IF d = 0 THEN Panic ELSE Norm(0, n, d)

Zero == <<0, 0, 1>>

One == <<1, 0, 1>>

FromInteger(n) == <<n, 0, 1>>

\* a < b; Wrapped lies above every rational, Panic is below nothing
RLt(a, b) ==
    IF IsNumber(a) /\ IsNumber(b)
    THEN a[1] < b[1] \/ (a[1] = b[1] /\ a[2] * b[3] < b[2] * a[3])
    ELSE IsNumber(a) /\ b = Wrapped

\* a <= b
RLe(a, b) ==
    IF IsNumber(a) /\ IsNumber(b)
    THEN a[1] < b[1] \/ (a[1] = b[1] /\ a[2] * b[3] <= b[2] * a[3])
    ELSE ~(a = Wrapped /\ IsNumber(b))

RAdd(a, b) ==
    IF ~IsNumber(a) \/ ~IsNumber(b) THEN Panic
    ELSE Norm(a[1] + b[1], a[2] * b[3] + b[2] * a[3], a[3] * b[3])

\* unsigned subtraction: panics when the result would be negative; one unit
\* of the whole part is borrowed into the numerator, and Norm carries it
\* back when it was not needed
RSub(a, b) ==
    IF ~IsNumber(a) \/ ~IsNumber(b) THEN Panic
    ELSE IF RLt(a, b) THEN Panic
    ELSE Norm(a[1] - b[1] - 1, a[3] * b[3] + a[2] * b[3] - b[2] * a[3],
              a[3] * b[3])

\* the numerator of a as a plain fraction over a[3]
Numer(a) == a[1] * a[3] + a[2]

\* the product of the four parts: whole * whole, the two whole * fraction
\* (each split into the multiples of the denominator and the rest, which
\* keeps every intermediate product small) and fraction * fraction
RMul(a, b) ==
    IF ~IsNumber(a) \/ ~IsNumber(b) THEN Panic
    ELSE LET x == (a[1] % b[3]) * b[2]
             y == (b[1] % a[3]) * a[2]
         IN Norm(a[1] * b[1] + (a[1] \div b[3]) * b[2] + (b[1] \div a[3]) * a[2]
                     + (x \div b[3]) + (y \div a[3]),
                 (x % b[3]) * a[3] + (y % a[3]) * b[3] + a[2] * b[2],
                 a[3] * b[3])

\* division: a zero divisor panics; zero divided by Wrapped is zero, and any
\* other amount divided by Wrapped keeps the numerator of the wrapped ratio as
\* its denominator
RDiv(a, b) ==
    IF IsPanic(a) \/ IsPanic(b) \/ a = Wrapped THEN Panic
    ELSE IF b = Wrapped THEN (IF a = Zero THEN Zero ELSE Wrapped)
    ELSE IF b = Zero THEN Panic
    ELSE RMul(a, Norm(0, b[3], Numer(b)))

\* cast_ratio: widen numerator and denominator and rebuild the ratio
cast_ratio(input) ==
    IF IsPanic(input) THEN Panic
    ELSE IF input = Wrapped THEN Wrapped
    ELSE Norm(input[1], input[2], input[3])

(***************************************************************************)
(* Bound pairing.                                                          *)
(***************************************************************************)
None == [some |-> FALSE, v |-> Zero]

Some(x) == [some |-> TRUE, v |-> x]

Unbounded == [kind |-> "Unbounded", v |-> Zero]

Included(x) == [kind |-> "Included", v |-> x]

Excluded(x) == [kind |-> "Excluded", v |-> x]

\* once(None).chain(seps.map(Some))  zipped with  seps.map(Some).chain(once(None))
multibound_to_opts_iter(i) ==
    LET bot_iter == <<None>> \o [k \in 1..Len(i) |-> Some(i[k])]
        top_iter == [k \in 1..Len(i) |-> Some(i[k])] \o <<None>>
    IN [k \in 1..(Len(i) + 1) |-> <<bot_iter[k], top_iter[k]>>]

\* opt_to_bound that ignores the requested conversion: every bound inclusive
opt_to_bound_included(opt, conv) ==
    IF opt.some THEN Included(opt.v) ELSE Unbounded

opt_to_bound(opt, conv) ==
    IF opt.some
    THEN (IF conv = "Included" THEN Included(opt.v) ELSE Excluded(opt.v))
    ELSE Unbounded

\* the pairing with the two conventions exchanged: a separator goes to the
\* upper range when inclusive_bounds is set
multibound_to_bounds_iter_flipped(i, inclusive_bounds) ==
    LET bot_map == IF inclusive_bounds THEN "Excluded" ELSE "Included"
        top_map == IF inclusive_bounds THEN "Included" ELSE "Excluded"
        opt_iter == multibound_to_opts_iter(i)
    IN [k \in 1..Len(opt_iter) |->
            <<opt_to_bound(opt_iter[k][1], top_map),
              opt_to_bound(opt_iter[k][2], bot_map)>>]

\* the first component of each option pair is mapped with top_map and becomes
\* the start bound, the second with bot_map and becomes the end bound
multibound_to_bounds_iter(i, inclusive_bounds) ==
    LET bot_map == IF inclusive_bounds THEN "Included" ELSE "Excluded"
        top_map == IF inclusive_bounds THEN "Excluded" ELSE "Included"
        opt_iter == multibound_to_opts_iter(i)
    IN [k \in 1..Len(opt_iter) |->
            <<opt_to_bound(opt_iter[k][1], top_map),
              opt_to_bound(opt_iter[k][2], bot_map)>>]

\* RangeBounds::contains for a (start bound, end bound) pair
contains(bound, x) ==
    /\ CASE bound[1].kind = "Included" -> RLe(bound[1].v, x)
         [] bound[1].kind = "Excluded" -> RLt(bound[1].v, x)
         [] OTHER -> TRUE
    /\ CASE bound[2].kind = "Included" -> RLe(x, bound[2].v)
         [] bound[2].kind = "Excluded" -> RLt(x, bound[2].v)
         [] OTHER -> TRUE

(***************************************************************************)
(* TaxBrackets.                                                            *)
(***************************************************************************)
\* the outcome of a construction that panicked: no schedule exists
NoBrackets == [ok |-> FALSE, separators |-> <<>>, rates |-> <<>>, flats |-> <<>>]

Min(S) == CHOOSE x \in S : \A y \in S : x <= y

\* flat deductions that take the separator itself as the width of every
\* bracket
RECURSIVE FlatsUpTo_no_width(_, _, _)
FlatsUpTo_no_width(separators, rates, n) ==
    IF n = 0 THEN <<>>
    ELSE LET flats == FlatsUpTo_no_width(separators, rates, n - 1)
             deduction ==
                 IF n = 1 THEN Zero
                 ELSE RAdd(flats[n - 1],
                           RMul(separators[n - 1], cast_ratio(rates[n - 1])))
         IN Append(flats, deduction)

\* flat deductions that do not carry the previous flat deduction forward
RECURSIVE FlatsUpTo_no_carry(_, _, _)
FlatsUpTo_no_carry(separators, rates, n) ==
    IF n = 0 THEN <<>>
    ELSE LET flats == FlatsUpTo_no_carry(separators, rates, n - 1)
             deduction ==
                 IF n = 1 THEN Zero
                 ELSE LET diff == IF n = 2 THEN separators[n - 1]
                                  ELSE RSub(separators[n - 1], separators[n - 2])
                      IN RMul(diff, cast_ratio(rates[n - 1]))
         IN Append(flats, deduction)

\* flat deductions that charge the preceding bracket's width at the rate of
\* the bracket being entered
RECURSIVE FlatsUpTo_own_rate(_, _, _)
FlatsUpTo_own_rate(separators, rates, n) ==
    IF n = 0 THEN <<>>
    ELSE LET flats == FlatsUpTo_own_rate(separators, rates, n - 1)
             deduction ==
                 IF n = 1 THEN Zero
                 ELSE LET diff == IF n = 2 THEN separators[n - 1]
                                  ELSE RSub(separators[n - 1], separators[n - 2])
                      IN RAdd(flats[n - 1], RMul(diff, cast_ratio(rates[n])))
         IN Append(flats, deduction)

\* the flat deductions of the first n brackets (the loop of new, 1-based)
RECURSIVE FlatsUpTo(_, _, _)
FlatsUpTo(separators, rates, n) ==
    IF n = 0 THEN <<>>
    ELSE LET flats == FlatsUpTo(separators, rates, n - 1)
             deduction ==
                 IF n = 1 THEN Zero
                 ELSE LET diff == IF n = 2 THEN separators[n - 1]
                                  ELSE RSub(separators[n - 1], separators[n - 2])
                      IN RAdd(flats[n - 1], RMul(diff, cast_ratio(rates[n - 1])))
         IN Append(flats, deduction)

\* new with the length assertion off by one
new_same_len(separators, rates) ==
    IF Len(separators) # Len(rates) THEN NoBrackets
    ELSE [ok |-> TRUE, separators |-> separators, rates |-> rates,
          flats |-> [k \in 1..Len(rates) |-> Zero]]

new(separators, rates) ==
    IF Len(separators) + 1 # Len(rates) THEN NoBrackets
    ELSE LET flats == FlatsUpTo(separators, rates, Len(rates))
         IN IF \E k \in 1..Len(flats) : IsPanic(flats[k]) THEN NoBrackets
            ELSE [ok |-> TRUE, separators |-> separators,
                  rates |-> rates, flats |-> flats]

\* number of (flat, rate) pairs: zip stops at the shorter list
taxation_info_len(t) == IF Len(t.flats) < Len(t.rates) THEN Len(t.flats) ELSE Len(t.rates)

\* the index of the first zipped (bound, taxation info) pair whose bound
\* contains x, or 0 when the loop falls through
first_bracket(bounds, n, x) ==
    LET m == IF Len(bounds) < n THEN Len(bounds) ELSE n
        hits == {k \in 1..m : contains(bounds[k], x)}
    IN IF hits = {} THEN 0 ELSE Min(hits)

\* calc_taxes that applies the bracket's rate to the whole gross amount
calc_taxes_whole_gross(t, gross) ==
    LET bounds == multibound_to_bounds_iter(t.separators, TRUE)
        k == first_bracket(bounds, taxation_info_len(t), gross)
    IN IF k = 0 THEN Panic
       ELSE RAdd(t.flats[k], RMul(gross, cast_ratio(t.rates[k])))

calc_taxes(t, gross) ==
    LET bounds == multibound_to_bounds_iter(t.separators, TRUE)
        k == first_bracket(bounds, taxation_info_len(t), gross)
    IN IF k = 0 THEN Panic
       ELSE LET amount_over ==
                    IF bounds[k][1].kind = "Unbounded" THEN gross
                    ELSE RSub(gross, bounds[k][1].v)
            IN RAdd(t.flats[k], RMul(amount_over, cast_ratio(t.rates[k])))

calc_net(t, gross) ==
    LET taxed == calc_taxes(t, gross)
    IN IF IsPanic(taxed) THEN Panic
       ELSE IF RLt(gross, taxed) THEN Panic
       ELSE RSub(gross, taxed)

\* post-tax separators that subtract the flat deduction of the bracket the
\* separator closes instead of the one it opens
separators_post_tax_own_flat(t) ==
    [k \in 1..Len(t.separators) |-> RSub(t.separators[k], t.flats[k])]

\* the pre-tax separators re-expressed in net terms, one per separator; an
\* entry is Panic when its unsigned subtraction would go below zero (the
\* iterator is lazy: the entry is only computed when the lookup reaches it)
separators_post_tax(t) ==
    [k \in 1..Len(t.separators) |-> RSub(t.separators[k], t.flats[k + 1])]

\* the share of gross kept taken to be the rate itself
percentage_of_gross_as_rate(rate, overflow_checks) ==
    IF RLe(rate, One) THEN rate
    ELSE IF overflow_checks THEN Panic ELSE Wrapped

percentage_of_gross(rate, overflow_checks) ==
    IF RLe(rate, One) THEN RSub(One, rate)
    ELSE IF overflow_checks THEN Panic ELSE Wrapped

\* calc_gross that takes the pre-tax separator as prev_bucket
calc_gross_pretax_prev(t, net, overflow_checks) ==
    IF Len(t.separators) + 1 # Len(t.flats) THEN Panic
    ELSE
    LET separators == separators_post_tax(t)
        n == Len(separators)
        bounds == multibound_to_bounds_iter(separators, TRUE)
        m == IF Len(bounds) < taxation_info_len(t) THEN Len(bounds)
             ELSE taxation_info_len(t)
        step_panics(k) == \/ k - 1 >= 1 /\ IsPanic(separators[k - 1])
                          \/ k <= n /\ IsPanic(separators[k])
        stops == {k \in 1..m : step_panics(k) \/ contains(bounds[k], net)}
    IN IF stops = {} THEN Panic
       ELSE LET k == Min(stops)
            IN IF step_panics(k) THEN Panic
               ELSE LET over_amount == IF bounds[k][1].kind = "Unbounded" THEN net
                                       ELSE RSub(net, bounds[k][1].v)
                        prev_bucket == IF bounds[k][1].kind = "Unbounded" THEN Zero
                                       ELSE t.separators[k - 1]
                        pct == percentage_of_gross(t.rates[k], overflow_checks)
                    IN IF pct = Wrapped /\ over_amount # Zero THEN Wrapped
                       ELSE RAdd(RAdd(t.flats[k], prev_bucket),
                                 RDiv(over_amount, cast_ratio(pct)))

calc_gross(t, net, overflow_checks) ==
    IF Len(t.separators) + 1 # Len(t.flats) THEN Panic
    ELSE
    LET separators == separators_post_tax(t)
        n == Len(separators)
        bounds == multibound_to_bounds_iter(separators, TRUE)
        m == IF Len(bounds) < taxation_info_len(t) THEN Len(bounds)
             ELSE taxation_info_len(t)
        \* producing the k-th bound computes the post-tax separators k-1 and k
        step_panics(k) == \/ k - 1 >= 1 /\ IsPanic(separators[k - 1])
                          \/ k <= n /\ IsPanic(separators[k])
        stops == {k \in 1..m : step_panics(k) \/ contains(bounds[k], net)}
    IN IF stops = {} THEN Panic
       ELSE LET k == Min(stops)
            IN IF step_panics(k) THEN Panic
               ELSE LET over_amount == IF bounds[k][1].kind = "Unbounded" THEN net
                                       ELSE RSub(net, bounds[k][1].v)
                        prev_bucket == IF bounds[k][1].kind = "Unbounded" THEN Zero
                                       ELSE bounds[k][1].v
                        pct == percentage_of_gross(t.rates[k], overflow_checks)
                    IN IF pct = Wrapped /\ over_amount # Zero THEN Wrapped
                       ELSE RAdd(RAdd(t.flats[k], prev_bucket),
                                 RDiv(over_amount, cast_ratio(pct)))

\* the bracket the loop of calc_gross returns from: its index, 0 when the
\* loop falls through, -1 when the assertion of separators_post_tax or the
\* computation of a post-tax separator panics before a bracket is found
gross_lookup(t, net) ==
    IF Len(t.separators) + 1 # Len(t.flats) THEN -1
    ELSE
    LET separators == separators_post_tax(t)
        n == Len(separators)
        bounds == multibound_to_bounds_iter(separators, TRUE)
        m == IF Len(bounds) < taxation_info_len(t) THEN Len(bounds)
             ELSE taxation_info_len(t)
        step_panics(k) == \/ k - 1 >= 1 /\ IsPanic(separators[k - 1])
                          \/ k <= n /\ IsPanic(separators[k])
        stops == {k \in 1..m : step_panics(k) \/ contains(bounds[k], net)}
    IN IF stops = {} THEN 0
       ELSE IF step_panics(Min(stops)) THEN -1
       ELSE Min(stops)

\* calc_net on the amount calc_gross returns for net without overflow
\* checks when the rate p / q of the selected bracket exceeds 1.  The wrapped
\* 1 - rate is (2^64 - (p - q)) / q, so the amount is b + d with
\* b = flat + prev_bucket and d = over_amount * q / (2^64 - (p - q)): d is
\* zero when over_amount is, and otherwise positive and below every
\* difference of two amounts written with small integers.  Hence b + d lies
\* in the bracket (start, end] with start <= b < end, its taxes are those of
\* b plus d * rate, and the net is (b - taxes of b) + d * (1 - rate): a
\* panic when that is negative, Wrapped when d remains in it.

\* gross - taxed for gross = b + d, where taxed is the tax on b alone
wrapped_net(b, taxed, rate) ==
    IF RLt(b, taxed) THEN Panic
    ELSE IF RLt(taxed, b) THEN (IF rate = One THEN RSub(b, taxed) ELSE Wrapped)
    ELSE IF RLt(rate, One) THEN Wrapped
    ELSE IF rate = One THEN Zero
    ELSE Panic

\* calc_taxes of b in bracket j and the net of b + d from it
wrapped_net_in(t, start, j, b) ==
    wrapped_net(b,
                RAdd(t.flats[j],
                     RMul(IF start.kind = "Unbounded" THEN b ELSE RSub(b, start.v),
                          cast_ratio(t.rates[j]))),
                t.rates[j])

\* the bracket of b + d: the one whose range holds b with its start included
wrapped_net_from(t, bounds, j, b) ==
    IF j = 0 THEN Panic ELSE wrapped_net_in(t, bounds[j][1], j, b)

\* calc_net of b + d
wrapped_calc_net(t, bounds, b) ==
    wrapped_net_from(t, bounds, first_bracket(bounds, taxation_info_len(t), b), b)

\* the amount calc_gross builds in bracket k above prev_bucket, and its net
wrapped_gross_net(t, k, prev_bucket, net) ==
    IF RSub(net, prev_bucket) = Zero
    THEN calc_net(t, RAdd(t.flats[k], prev_bucket))
    ELSE wrapped_calc_net(t, multibound_to_bounds_iter(t.separators, FALSE),
                          RAdd(t.flats[k], prev_bucket))

\* the bracket calc_gross selects for net, and the net of what it returns
wrapped_gross_in(t, post, k, net) ==
    IF k < 1 THEN Panic
    ELSE wrapped_gross_net(t, k,
                           IF post[k][1].kind = "Unbounded" THEN Zero
                           ELSE post[k][1].v,
                           net)

calc_net_of_wrapped(t, net) ==
    wrapped_gross_in(t, multibound_to_bounds_iter(separators_post_tax(t), TRUE),
                     gross_lookup(t, net), net)

\* a walk that drains lhs before rhs whenever the heads differ
RECURSIVE merged_separators_lhs_first(_, _)
merged_separators_lhs_first(lhs_brackets, rhs_brackets) ==
    IF lhs_brackets = <<>> \/ rhs_brackets = <<>>
    THEN [k \in 1..Len(lhs_brackets) |-> <<"LHS", lhs_brackets[k]>>]
         \o [k \in 1..Len(rhs_brackets) |-> <<"RHS", rhs_brackets[k]>>]
    ELSE LET lhs_bracket == Head(lhs_brackets)
             rhs_bracket == Head(rhs_brackets)
         IN IF lhs_bracket = rhs_bracket
            THEN <<(<<"Both", lhs_bracket>>)>>
                 \o merged_separators_lhs_first(Tail(lhs_brackets), Tail(rhs_brackets))
            ELSE <<(<<"LHS", lhs_bracket>>)>>
                 \o merged_separators_lhs_first(Tail(lhs_brackets), rhs_brackets)

\* a walk that stops when either list is exhausted and drops the rest
RECURSIVE merged_separators_no_drain(_, _)
merged_separators_no_drain(lhs_brackets, rhs_brackets) ==
    IF lhs_brackets = <<>> \/ rhs_brackets = <<>>
    THEN <<>>
    ELSE LET lhs_bracket == Head(lhs_brackets)
             rhs_bracket == Head(rhs_brackets)
         IN IF lhs_bracket = rhs_bracket
            THEN <<(<<"Both", lhs_bracket>>)>>
                 \o merged_separators_no_drain(Tail(lhs_brackets), Tail(rhs_brackets))
            ELSE IF RLt(lhs_bracket, rhs_bracket)
            THEN <<(<<"LHS", lhs_bracket>>)>>
                 \o merged_separators_no_drain(Tail(lhs_brackets), rhs_brackets)
            ELSE <<(<<"RHS", rhs_bracket>>)>>
                 \o merged_separators_no_drain(lhs_brackets, Tail(rhs_brackets))

\* a walk that pushes a separator present on both sides once per side
RECURSIVE merged_separators_both_twice(_, _)
merged_separators_both_twice(lhs_brackets, rhs_brackets) ==
    IF lhs_brackets = <<>> \/ rhs_brackets = <<>>
    THEN [k \in 1..Len(lhs_brackets) |-> <<"LHS", lhs_brackets[k]>>]
         \o [k \in 1..Len(rhs_brackets) |-> <<"RHS", rhs_brackets[k]>>]
    ELSE LET lhs_bracket == Head(lhs_brackets)
             rhs_bracket == Head(rhs_brackets)
         IN IF RLe(lhs_bracket, rhs_bracket)
            THEN <<(<<"LHS", lhs_bracket>>)>>
                 \o merged_separators_both_twice(Tail(lhs_brackets), rhs_brackets)
            ELSE <<(<<"RHS", rhs_bracket>>)>>
                 \o merged_separators_both_twice(lhs_brackets, Tail(rhs_brackets))

\* the two-pointer walk over both separator lists: a sequence of
\* <<side, separator>> pairs; once one list is exhausted the rest of lhs and
\* then the rest of rhs are appended
RECURSIVE merged_separators(_, _)
merged_separators(lhs_brackets, rhs_brackets) ==
    IF lhs_brackets = <<>> \/ rhs_brackets = <<>>
    THEN [k \in 1..Len(lhs_brackets) |-> <<"LHS", lhs_brackets[k]>>]
         \o [k \in 1..Len(rhs_brackets) |-> <<"RHS", rhs_brackets[k]>>]
    ELSE LET lhs_bracket == Head(lhs_brackets)
             rhs_bracket == Head(rhs_brackets)
         IN IF lhs_bracket = rhs_bracket
            THEN <<(<<"Both", lhs_bracket>>)>>
                 \o merged_separators(Tail(lhs_brackets), Tail(rhs_brackets))
            ELSE IF RLt(lhs_bracket, rhs_bracket)
            THEN <<(<<"LHS", lhs_bracket>>)>>
                 \o merged_separators(Tail(lhs_brackets), rhs_brackets)
            ELSE <<(<<"RHS", rhs_bracket>>)>>
                 \o merged_separators(lhs_brackets, Tail(rhs_brackets))

\* a rate walk in which a boundary of both sides advances only the lhs rate
RECURSIVE merged_rates_from_both_lhs(_, _, _, _, _)
merged_rates_from_both_lhs(merge_order, lhs_rates, rhs_rates, curr_lhs, curr_rhs) ==
    IF merge_order = <<>> THEN <<>>
    ELSE LET side == Head(merge_order)
             adv_lhs == side \in {"LHS", "Both"}
             adv_rhs == side \in {"RHS"}
         IN IF (adv_lhs /\ lhs_rates = <<>>) \/ (adv_rhs /\ rhs_rates = <<>>)
            THEN <<Panic>>
            ELSE LET next_lhs == IF adv_lhs THEN Head(lhs_rates) ELSE curr_lhs
                     next_rhs == IF adv_rhs THEN Head(rhs_rates) ELSE curr_rhs
                 IN <<RAdd(next_lhs, next_rhs)>>
                    \o merged_rates_from_both_lhs(Tail(merge_order),
                                         IF adv_lhs THEN Tail(lhs_rates) ELSE lhs_rates,
                                         IF adv_rhs THEN Tail(rhs_rates) ELSE rhs_rates,
                                         next_lhs, next_rhs)

\* the rates pushed for the rest of merge_order, given the rates not yet
\* consumed on each side and the current rate of each side; a Panic entry
\* marks an exhausted rate iterator (a failed expect), after which nothing
\* more is pushed
RECURSIVE merged_rates_from(_, _, _, _, _)
merged_rates_from(merge_order, lhs_rates, rhs_rates, curr_lhs, curr_rhs) ==
    IF merge_order = <<>> THEN <<>>
    ELSE LET side == Head(merge_order)
             adv_lhs == side \in {"LHS", "Both"}
             adv_rhs == side \in {"RHS", "Both"}
         IN IF (adv_lhs /\ lhs_rates = <<>>) \/ (adv_rhs /\ rhs_rates = <<>>)
            THEN <<Panic>>
            ELSE LET next_lhs == IF adv_lhs THEN Head(lhs_rates) ELSE curr_lhs
                     next_rhs == IF adv_rhs THEN Head(rhs_rates) ELSE curr_rhs
                 IN <<RAdd(next_lhs, next_rhs)>>
                    \o merged_rates_from(Tail(merge_order),
                                         IF adv_lhs THEN Tail(lhs_rates) ELSE lhs_rates,
                                         IF adv_rhs THEN Tail(rhs_rates) ELSE rhs_rates,
                                         next_lhs, next_rhs)

\* merged rates whose base rate forgets the rhs base rate
merged_rates_base_lhs(merge_order, lhs_rates, rhs_rates) ==
    IF lhs_rates = <<>> \/ rhs_rates = <<>> THEN <<Panic>>
    ELSE <<Head(lhs_rates)>>
         \o merged_rates_from(merge_order, Tail(lhs_rates), Tail(rhs_rates),
                              Head(lhs_rates), Head(rhs_rates))

\* the base rate followed by one rate per merged separator
merged_rates(merge_order, lhs_rates, rhs_rates) ==
    IF lhs_rates = <<>> \/ rhs_rates = <<>> THEN <<Panic>>
    ELSE <<RAdd(Head(lhs_rates), Head(rhs_rates))>>
         \o merged_rates_from(merge_order, Tail(lhs_rates), Tail(rhs_rates),
                              Head(lhs_rates), Head(rhs_rates))

merge(lhs, rhs) ==
    LET tagged == merged_separators(lhs.separators, rhs.separators)
        merge_order == [k \in 1..Len(tagged) |-> tagged[k][1]]
        separators == [k \in 1..Len(tagged) |-> tagged[k][2]]
        rates == merged_rates(merge_order, lhs.rates, rhs.rates)
    IN IF \E k \in 1..Len(rates) : IsPanic(rates[k]) THEN NoBrackets
       ELSE new(separators, rates)

(***************************************************************************)
(* The second copy of the engine, in main.rs.  multibound_to_bounds_iter,  *)
(* calc_taxes, separators_post_tax and the separator merge read the same   *)
(* as in brackets.rs; new, calc_gross and the rate merge do not.           *)
(***************************************************************************)
\* the flats loop of main.rs: the width of the preceding bracket is charged
\* at rates[bracket]
RECURSIVE main_FlatsUpTo(_, _, _)
main_FlatsUpTo(separators, rates, n) ==
    IF n = 0 THEN <<>>
    ELSE LET flats == main_FlatsUpTo(separators, rates, n - 1)
             deduction ==
                 IF n = 1 THEN Zero
                 ELSE LET diff == IF n = 2 THEN separators[n - 1]
                                  ELSE RSub(separators[n - 1], separators[n - 2])
                      IN RAdd(flats[n - 1], RMul(diff, cast_ratio(rates[n])))
         IN Append(flats, deduction)

\* TaxBrackets::new of main.rs
main_new(separators, rates) ==
    IF Len(separators) + 1 # Len(rates) THEN NoBrackets
    ELSE LET flats == main_FlatsUpTo(separators, rates, Len(rates))
         IN IF \E k \in 1..Len(flats) : IsPanic(flats[k]) THEN NoBrackets
            ELSE [ok |-> TRUE, separators |-> separators,
                  rates |-> rates, flats |-> flats]

\* TaxBrackets::calc_taxes of main.rs
main_calc_taxes(t, gross) == calc_taxes(t, gross)

\* TaxBrackets::calc_gross of main.rs: flat + over_amount / (1 - rate)
main_calc_gross(t, net, overflow_checks) ==
    IF Len(t.separators) + 1 # Len(t.flats) THEN Panic
    ELSE
    LET separators == separators_post_tax(t)
        n == Len(separators)
        bounds == multibound_to_bounds_iter(separators, TRUE)
        m == IF Len(bounds) < taxation_info_len(t) THEN Len(bounds)
             ELSE taxation_info_len(t)
        step_panics(k) == \/ k - 1 >= 1 /\ IsPanic(separators[k - 1])
                          \/ k <= n /\ IsPanic(separators[k])
        stops == {k \in 1..m : step_panics(k) \/ contains(bounds[k], net)}
    IN IF stops = {} THEN Panic
       ELSE LET k == Min(stops)
            IN IF step_panics(k) THEN Panic
               ELSE LET over_amount == IF bounds[k][1].kind = "Unbounded" THEN net
                                       ELSE RSub(net, bounds[k][1].v)
                        pct == percentage_of_gross(t.rates[k], overflow_checks)
                    IN IF pct = Wrapped /\ over_amount # Zero THEN Wrapped
                       ELSE RAdd(t.flats[k], RDiv(over_amount, cast_ratio(pct)))

\* the rate merge of main.rs: the base rates are peeked, not consumed, so
\* the first next() on a side yields that side's base rate again
main_merged_rates(merge_order, lhs_rates, rhs_rates) ==
    IF lhs_rates = <<>> \/ rhs_rates = <<>> THEN <<Panic>>
    ELSE <<RAdd(Head(lhs_rates), Head(rhs_rates))>>
         \o merged_rates_from(merge_order, lhs_rates, rhs_rates,
                              Head(lhs_rates), Head(rhs_rates))

\* TaxBrackets::merge of main.rs
main_merge(lhs, rhs) ==
    LET tagged == merged_separators(lhs.separators, rhs.separators)
        merge_order == [k \in 1..Len(tagged) |-> tagged[k][1]]
        separators == [k \in 1..Len(tagged) |-> tagged[k][2]]
        rates == main_merged_rates(merge_order, lhs.rates, rhs.rates)
    IN IF \E k \in 1..Len(rates) : IsPanic(rates[k]) THEN NoBrackets
       ELSE main_new(separators, rates)

(***************************************************************************)
(* TaxSystem: a map from filing status to schedule.  A status without an   *)
(* entry maps to None.  ok is FALSE when building the system panicked.     *)
(***************************************************************************)
Statuses == {"Single", "Joint", "Separate", "HeadOfHousehold"}

NoSystem == [ok |-> FALSE, brackets |-> [k \in Statuses |-> None]]

\* the map entries, with the entry of every status computed once
ByStatus(entries) ==
    [Single |-> entries["Single"], Joint |-> entries["Joint"],
     Separate |-> entries["Separate"],
     HeadOfHousehold |-> entries["HeadOfHousehold"]]

\* TaxBrackets::base: integer separators turned into rationals
base(separators, rates) ==
    new([k \in 1..Len(separators) |-> FromInteger(separators[k])], rates)

\* TaxSystem::new: one schedule per entry of brackets_by_status, each entry
\* Some(<<separators, rates>>)
TaxSystem_new(brackets_by_status) ==
    LET built == ByStatus([k \in Statuses |->
                     IF brackets_by_status[k].some
                     THEN Some(base(brackets_by_status[k].v[1],
                                    brackets_by_status[k].v[2]))
                     ELSE None])
    IN IF \E k \in Statuses : built[k].some /\ ~built[k].v.ok THEN NoSystem
       ELSE [ok |-> TRUE, brackets |-> built]

\* TaxSystem::flat: the one-bracket schedule of rate under every status
TaxSystem_flat(rate) ==
    LET tax_brackets == base(<<>>, <<rate>>)
    IN IF ~tax_brackets.ok THEN NoSystem
       ELSE [ok |-> TRUE, brackets |-> ByStatus([k \in Statuses |-> Some(tax_brackets)])]

\* calc_taxes that fails for a status without a schedule
TaxSystem_calc_taxes_strict(sys, gross, status) ==
    IF sys.brackets[status].some THEN calc_taxes(sys.brackets[status].v, gross)
    ELSE Panic

TaxSystem_calc_taxes(sys, gross, status) ==
    IF sys.brackets[status].some THEN calc_taxes(sys.brackets[status].v, gross)
    ELSE Zero

TaxSystem_calc_net(sys, gross, status) ==
    IF sys.brackets[status].some THEN calc_net(sys.brackets[status].v, gross)
    ELSE gross

TaxSystem_calc_gross(sys, net, status, overflow_checks) ==
    IF sys.brackets[status].some
    THEN calc_gross(sys.brackets[status].v, net, overflow_checks)
    ELSE net

\* a merge that keeps a status only when both sides have it
TaxSystem_merge_both_only(lhs, rhs) ==
    IF ~lhs.ok \/ ~rhs.ok THEN NoSystem
    ELSE
    LET new_tax_brackets ==
            ByStatus([k \in Statuses |->
                LET l == lhs.brackets[k]
                    r == rhs.brackets[k]
                IN IF l.some /\ r.some THEN Some(merge(l.v, r.v))
                   ELSE None])
    IN IF \E k \in Statuses :
             new_tax_brackets[k].some /\ ~new_tax_brackets[k].v.ok
       THEN NoSystem
       ELSE [ok |-> TRUE, brackets |-> new_tax_brackets]

\* TaxSystem::merge: status by status; a panic of TaxBrackets::merge is a
\* panic of the whole merge
TaxSystem_merge(lhs, rhs) ==
    IF ~lhs.ok \/ ~rhs.ok THEN NoSystem
    ELSE
    LET new_tax_brackets ==
            ByStatus([k \in Statuses |->
                LET l == lhs.brackets[k]
                    r == rhs.brackets[k]
                IN IF ~l.some /\ ~r.some THEN None
                   ELSE IF ~l.some THEN r
                   ELSE IF ~r.some THEN l
                   ELSE Some(merge(l.v, r.v))])
    IN IF \E k \in Statuses :
             new_tax_brackets[k].some /\ ~new_tax_brackets[k].v.ok
       THEN NoSystem
       ELSE [ok |-> TRUE, brackets |-> new_tax_brackets]

(***************************************************************************)
(* Location: the country, state and city layers, each None or Some system. *)
(***************************************************************************)
SanFranciscoRateNumer == 15

SanFranciscoRateDenom == 1000

\* a lookup that panicked: no system exists, and every merge and every
\* query that would use it panics in turn
PanicSystem == Some(NoSystem)

\* usa_tax_system: the seven federal rates
usa_taxes_by_bracket ==
    <<Ratio(10, 100), Ratio(12, 100), Ratio(22, 100), Ratio(24, 100),
      Ratio(32, 100), Ratio(35, 100), Ratio(37, 100)>>

\* usa_tax_system: the separators of each status, all with the same rates
usa_ranges_by_status ==
    [k \in Statuses |->
        Some(<<CASE k = "Single" ->
                      <<9875, 40125, 85525, 163300, 207350, 518400>>
                 [] k = "Joint" ->
                      <<19750, 80250, 171050, 326600, 414700, 622050>>
                 [] k = "Separate" ->
                      <<9875, 40125, 85525, 163300, 207350, 518400>>
                 [] k = "HeadOfHousehold" ->
                      <<14100, 53700, 85500, 163300, 207350, 518400>>,
               usa_taxes_by_bracket>>)]

usa_tax_system == TaxSystem_new(usa_ranges_by_status)

\* country_tax_system: the USA has a system, every other country panics
country_tax_system(country) ==
    IF country = "USA" THEN Some(usa_tax_system) ELSE PanicSystem

\* State::tax_system, CA: the ten Californian rates
ca_taxes_by_bracket ==
    <<Ratio(11, 1000), Ratio(22, 1000), Ratio(44, 1000), Ratio(66, 1000),
      Ratio(88, 1000), Ratio(1023, 10000), Ratio(1133, 10000),
      Ratio(1243, 10000), Ratio(1353, 10000), Ratio(1463, 10000)>>

\* State::tax_system, CA: the separators of each status
ca_brackets_by_status ==
    [k \in Statuses |->
        Some(<<CASE k = "Single" ->
                      <<8809, 20883, 32960, 45753, 57824, 295373, 354445,
                        590742, 1000000>>
                 [] k = "Joint" ->
                      <<17618, 41766, 65920, 91506, 115648, 590746, 708890,
                        1000000, 1181484>>
                 [] k = "Separate" ->
                      <<8809, 20883, 32960, 45753, 57824, 295373, 354445,
                        590742, 1000000>>
                 [] k = "HeadOfHousehold" ->
                      <<17629, 41768, 53843, 66636, 78710, 401705, 482047,
                        803410, 1000000>>,
               ca_taxes_by_bracket>>)]

\* State::tax_system, CA: the system built from the table
ca_tax_system == TaxSystem_new(ca_brackets_by_status)

\* State::tax_system: California has a system, Texas has none
State_tax_system(state) ==
    IF state = "CA" THEN Some(ca_tax_system)
    ELSE IF state = "TX" THEN None
    ELSE PanicSystem

\* city_tax_system, San Francisco: a flat tax of 15/1000
san_francisco_tax_system ==
    TaxSystem_flat(Ratio(SanFranciscoRateNumer, SanFranciscoRateDenom))

\* city_tax_system: San Francisco has a flat tax, Austin has none, every
\* other city panics
city_tax_system(city) ==
    IF city \in {"San Francisco", "SF"} THEN Some(san_francisco_tax_system)
    ELSE IF city \in {"Austin", "AUS"} THEN None
    ELSE PanicSystem

\* a fold in which a later layer replaces the accumulator
RECURSIVE fold_layers_last_wins(_, _, _)
fold_layers_last_wins(brackets, i, merged_sys) ==
    IF i > Len(brackets) THEN merged_sys
    ELSE fold_layers_last_wins(brackets, i + 1,
                               IF ~brackets[i].some THEN merged_sys
                               ELSE brackets[i])

\* the loop of Location::tax_system from layer i on, merged being the
\* accumulator
RECURSIVE fold_layers(_, _, _)
fold_layers(brackets, i, merged_sys) ==
    IF i > Len(brackets) THEN merged_sys
    ELSE fold_layers(brackets, i + 1,
                     IF ~brackets[i].some THEN merged_sys
                     ELSE IF merged_sys.some
                          THEN Some(TaxSystem_merge(merged_sys.v, brackets[i].v))
                          ELSE brackets[i])

\* the three lookups of Location::tax_system, in the order they are folded
Location_layers(loc) ==
    <<country_tax_system(loc.country), State_tax_system(loc.state),
      city_tax_system(loc.city)>>

\* Location::tax_system over the three layers
Location_tax_system(brackets) == fold_layers(brackets, 1, None)

\* Location::calc_taxes; a panic while merging the layers is a panic of the
\* call
Location_calc_taxes(brackets, gross, status) ==
    LET sys == Location_tax_system(brackets)
    IN IF ~sys.some THEN Zero
       ELSE IF ~sys.v.ok THEN Panic
       ELSE TaxSystem_calc_taxes(sys.v, gross, status)

Location_calc_net(brackets, gross, status) ==
    LET sys == Location_tax_system(brackets)
    IN IF ~sys.some THEN gross
       ELSE IF ~sys.v.ok THEN Panic
       ELSE TaxSystem_calc_net(sys.v, gross, status)

Location_calc_gross(brackets, net, status, overflow_checks) ==
    LET sys == Location_tax_system(brackets)
    IN IF ~sys.some THEN net
       ELSE IF ~sys.v.ok THEN Panic
       ELSE TaxSystem_calc_gross(sys.v, net, status, overflow_checks)

(***************************************************************************)
(* Inputs.                                                                 *)
(***************************************************************************)
SeqsUpTo(S, n) == UNION {[1..k -> S] : k \in 0..n}

SepValues == {FromInteger(k) : k \in 0..MaxSep}

\* every rate k/RateDen from 0 up to 1 + 1/RateDen: the rates in [0, 1), the
\* rate 1 and one rate above 1
AllRates == {Ratio(k, RateDen) : k \in 0..(RateDen + 1)}

\* the rates of a queried schedule: none, the smallest, the largest below 1,
\* and the rates 1 and 1 + 1/RateDen that the data model excludes
QueryRates == {Ratio(k, RateDen) : k \in {0, 1, RateDen - 1, RateDen, RateDen + 1}}

\* the rates of the two sides of a merge
LhsRates == {Ratio(k, RateDen) : k \in {0, 1, RateDen - 1}}

RhsRates == {Ratio(k, RateDen) : k \in {0, RateDen - 1}}

ThirdRates == {Ratio(k, RateDen) : k \in {0, 1}}

\* the separators of merged schedules
MergeSepValues == {FromInteger(k) : k \in 1..MaxSep}

Amounts == {Ratio(k, AmountDen) : k \in 0..(AmountDen * (MaxSep + 1))}

StrictlyIncreasing(seps) ==
    \A k \in 1..(Len(seps) - 1) : RLt(seps[k], seps[k + 1])

NonDecreasing(seps) ==
    \A k \in 1..(Len(seps) - 1) : RLe(seps[k], seps[k + 1])

RatesValid(rates) ==
    \A k \in 1..Len(rates) : RLe(Zero, rates[k]) /\ RLt(rates[k], One)

\* a schedule as the data model requires it
Valid(t) ==
    /\ t.ok
    /\ StrictlyIncreasing(t.separators)
    /\ RatesValid(t.rates)

\* every argument pair of new with strictly increasing separators over S, one
\* rate more than separators, and rates over R
SchedInputs(S, n, R) ==
    {<<seps, rates>> \in SeqsUpTo(S, n) \X SeqsUpTo(R, n + 1) :
        StrictlyIncreasing(seps) /\ Len(rates) = Len(seps) + 1}

QueryInputs == SchedInputs(SepValues, MaxSeps, QueryRates)

LhsInputs == SchedInputs(MergeSepValues, MaxSeps, LhsRates)

RhsInputs == SchedInputs(MergeSepValues, MaxSeps, RhsRates)

\* the third schedule of an associativity check: flat, or one separator
ThirdInputs == SchedInputs(MergeSepValues, 1, ThirdRates)

\* the entries of the table a queried system is built from: a flat rate, two
\* brackets, and a flat rate above 1 that new accepts
SysSchedules ==
    {<<<<>>, <<Ratio(1, RateDen)>>>>,
     <<<<MaxSep>>, <<Ratio(1, RateDen), Ratio(RateDen - 1, RateDen)>>>>,
     <<<<>>, <<Ratio(RateDen + 1, RateDen)>>>>}

SysTables == [Statuses -> {None} \cup {Some(x) : x \in SysSchedules}]

\* the entries of the table of the right-hand system of a merge
RhsSysSchedules ==
    {<<<<>>, <<Ratio(1, RateDen)>>>>,
     <<<<1>>, <<Zero, Ratio(1, RateDen)>>>>}

RhsSysTables == [Statuses -> {None} \cup {Some(x) : x \in RhsSysSchedules}]

\* Location { country, state, city }: country is a public field that can
\* hold any country code, state is CA or TX, city is any string
Countries == {"USA", "CAN"}

States == {"CA", "TX"}

Cities == {"San Francisco", "SF", "Austin", "AUS", "Dallas"}

Locations == [country : Countries, state : States, city : Cities]

\* the amounts of a location query, in dollars: nothing, the first federal
\* separator, an amount in the middle brackets, a federal separator shared
\* by all statuses but Joint, and an amount above every separator
LocAmounts == {FromInteger(g) : g \in {0, 9875, 50000, 207350, 1200000}}

\* the months of a year of expenses
MonthsPerYear == 12

\* the homes and targets of an estimate: both names of San Francisco,
\* Austin in Texas and in California, San Francisco in Texas, and a city and
\* a country without tax rates
CitizenLocations ==
    {[country |-> "USA", state |-> "CA", city |-> "San Francisco"],
     [country |-> "USA", state |-> "CA", city |-> "SF"],
     [country |-> "USA", state |-> "CA", city |-> "Austin"],
     [country |-> "USA", state |-> "TX", city |-> "AUS"],
     [country |-> "USA", state |-> "TX", city |-> "SF"],
     [country |-> "USA", state |-> "TX", city |-> "Dallas"],
     [country |-> "CAN", state |-> "TX", city |-> "AUS"]}

\* living-cost factors: the same everywhere, or doubled in San Francisco
LivingCosts ==
    {[loc \in Locations |-> One],
     [loc \in Locations |->
         IF loc.city \in {"San Francisco", "SF"} THEN FromInteger(2) ELSE One]}

\* the statuses of a citizen
CitizenStatuses == {"Single", "Joint"}

\* yearly incomes, in dollars
Incomes == {FromInteger(g) : g \in {0, 9000, 60000}}

\* monthly expenses, in dollars: none, a part of every net income above,
\* and more than the smaller net income
Expenses == {FromInteger(e) : e \in {0, 500, 1000}}

(***************************************************************************)
(* State.                                                                  *)
(***************************************************************************)
VARIABLES
    pc,             \* position of the run
    in_separators,  \* the separators passed to new
    in_rates,       \* the rates passed to new
    lhs,            \* the schedule built by new, NoBrackets if it panicked
    bounds,         \* the ranges produced by multibound_to_bounds_iter
    inclusive,      \* the convention bounds was produced with
    amount,         \* the gross amount of the current query
    bracket,        \* the bracket calc_taxes returned from (0: fell through)
    taxes,          \* calc_taxes(amount)
    net,            \* calc_net(amount)
    back,           \* calc_gross(net)
    net_again,      \* calc_net(back)
    rhs,            \* the second schedule of a merge
    merged,         \* merge(lhs, rhs)
    swapped,        \* merge(rhs, lhs)
    third,          \* the third schedule of an associativity check
    merged_left,    \* merge(merge(lhs, rhs), third)
    merged_right,   \* merge(lhs, merge(rhs, third))
    status,         \* the filing status of the current query
    sys_lhs,        \* a tax system
    sys_rhs,        \* the second system of a system merge
    sys_merged,     \* TaxSystem::merge(sys_lhs, sys_rhs)
    layers,         \* the country, state and city systems of a location
    loc_sys,        \* Location::tax_system of the location
    tables,         \* the static tables: USA, California, living costs
    citizen,        \* the citizen: income, monthly expenses, status, home
    target,         \* the target location of the estimate
    mode,           \* the analysis mode of the estimate
    estimate,       \* estimate_equivalent_income_at(target, mode)
    main_copy,      \* the schedules the main.rs copy built from the same arguments
    main_out        \* what the main.rs copy returned for the same operation

vars == <<pc, in_separators, in_rates, lhs, bounds, inclusive, amount, bracket,
          taxes, net, back, net_again, rhs, merged, swapped, third, merged_left, merged_right,
          status, sys_lhs, sys_rhs, sys_merged, layers, loc_sys,
          tables, citizen, target, mode, estimate, main_copy, main_out>>

queryVars == <<amount, bracket, taxes, net, back>>

mergeVars == <<rhs, merged, swapped, third, merged_left, merged_right>>

sysVars == <<status, sys_lhs, sys_rhs, sys_merged, layers, loc_sys>>

citizenVars == <<tables, citizen, target, mode, estimate>>

mainVars == <<main_copy, main_out>>

\* no second copy in play
NoCopy ==
    /\ main_copy = [lhs |-> NoBrackets, rhs |-> NoBrackets]
    /\ main_out = Zero

\* no citizen and no static table in play
NoCitizen ==
    /\ tables = [living_costs |-> [loc \in Locations |-> One]]
    /\ citizen = [income |-> Zero, monthly_expenses |-> Zero, status |-> "Single",
                  home |-> [country |-> "USA", state |-> "TX", city |-> "AUS"]]
    /\ target = [country |-> "USA", state |-> "TX", city |-> "AUS"]
    /\ mode = "PostTax"
    /\ estimate = Zero

\* no tax system and no location in play
NoSystems ==
    /\ status = "Single"
    /\ sys_lhs = NoSystem
    /\ sys_rhs = NoSystem
    /\ sys_merged = NoSystem
    /\ layers = <<None, None, None>>
    /\ loc_sys = None

\* no schedule in play
NoSchedules ==
    /\ in_separators = <<>>
    /\ in_rates = <<>>
    /\ lhs = NoBrackets
    /\ bounds = <<>>
    /\ inclusive = TRUE
    /\ bracket = 0
    /\ rhs = NoBrackets
    /\ merged = NoBrackets
    /\ swapped = NoBrackets
    /\ third = NoBrackets
    /\ merged_left = NoBrackets
    /\ merged_right = NoBrackets

Init ==
    /\ pc = "start"
    /\ in_separators = <<>>
    /\ in_rates = <<>>
    /\ lhs = NoBrackets
    /\ bounds = <<>>
    /\ inclusive = TRUE
    /\ amount = Zero
    /\ bracket = 0
    /\ taxes = Zero
    /\ net = Zero
    /\ back = Zero
    /\ net_again = Zero
    /\ NoCitizen
    /\ NoCopy
    /\ rhs = NoBrackets
    /\ merged = NoBrackets
    /\ swapped = NoBrackets
    /\ third = NoBrackets
    /\ merged_left = NoBrackets
    /\ merged_right = NoBrackets
    /\ NoSystems

\* TaxBrackets::new(separators, rates)
New(separators, rates) ==
    /\ pc = "start"
    /\ in_separators' = separators
    /\ in_rates' = rates
    /\ lhs' = new(separators, rates)
    /\ pc' = IF lhs'.ok THEN "built" ELSE "failed"
    /\ UNCHANGED <<mainVars, citizenVars, net_again, sysVars, bounds, inclusive, queryVars, mergeVars>>

\* multibound_to_bounds_iter(separators, inclusive_bounds)
PairBounds(separators, inclusive_bounds) ==
    /\ pc = "start"
    /\ in_separators' = separators
    /\ inclusive' = inclusive_bounds
    /\ bounds' = multibound_to_bounds_iter(separators, inclusive_bounds)
    /\ pc' = "paired"
    /\ UNCHANGED <<mainVars, citizenVars, net_again, sysVars, in_rates, lhs, queryVars, mergeVars>>

\* lhs.calc_taxes(gross)
CalcTaxes(gross) ==
    /\ pc = "built"
    /\ amount' = gross
    /\ bracket' = first_bracket(multibound_to_bounds_iter(lhs.separators, TRUE),
                                taxation_info_len(lhs), gross)
    /\ taxes' = calc_taxes(lhs, gross)
    /\ pc' = "taxed"
    /\ UNCHANGED <<mainVars, citizenVars, net_again, sysVars, in_separators, in_rates, lhs, bounds, inclusive, net, back, mergeVars>>

\* lhs.calc_net(amount)
CalcNet ==
    /\ pc = "taxed"
    /\ net' = calc_net(lhs, amount)
    /\ pc' = "netted"
    /\ UNCHANGED <<mainVars, citizenVars, net_again, sysVars, in_separators, in_rates, lhs, bounds, inclusive,
                   amount, bracket, taxes, back, mergeVars>>

\* lhs.calc_gross(net), in a build with or without overflow checks
CalcGross(overflow_checks) ==
    /\ pc = "netted"
    /\ ~IsPanic(net)
    /\ back' = calc_gross(lhs, net, overflow_checks)
    /\ pc' = "inverted"
    /\ UNCHANGED <<mainVars, citizenVars, net_again, sysVars, in_separators, in_rates, lhs, bounds, inclusive,
                   amount, bracket, taxes, net, mergeVars>>

\* construction and bound pairing on arbitrary argument lists
Next ==
    \/ /\ pc = "start"
       /\ \E separators \in SeqsUpTo(SepValues, MaxSeps),
             rates \in SeqsUpTo(AllRates, MaxSeps + 1) : New(separators, rates)
    \/ /\ pc = "start"
       /\ \E separators \in SeqsUpTo(SepValues, MaxSeps),
             inclusive_bounds \in BOOLEAN : PairBounds(separators, inclusive_bounds)

Spec == Init /\ [][Next]_vars

(***************************************************************************)
(* Queries: a schedule with strictly increasing separators is built, then  *)
(* calc_taxes, calc_net and calc_gross are called on it.                   *)
(***************************************************************************)
InitQuery ==
    /\ pc = "built"
    /\ \E a \in QueryInputs :
          /\ in_separators = a[1]
          /\ in_rates = a[2]
          /\ lhs = new(a[1], a[2])
    /\ bounds = <<>>
    /\ inclusive = TRUE
    /\ amount = Zero
    /\ bracket = 0
    /\ taxes = Zero
    /\ net = Zero
    /\ back = Zero
    /\ net_again = Zero
    /\ NoCitizen
    /\ NoCopy
    /\ rhs = NoBrackets
    /\ merged = NoBrackets
    /\ swapped = NoBrackets
    /\ third = NoBrackets
    /\ merged_left = NoBrackets
    /\ merged_right = NoBrackets
    /\ NoSystems

\* lhs.calc_gross(n) on a net amount given by the caller
CalcGrossOf(n, overflow_checks) ==
    /\ pc = "built"
    /\ net' = n
    /\ back' = calc_gross(lhs, n, overflow_checks)
    /\ pc' = "inverse"
    /\ UNCHANGED <<mainVars, citizenVars, net_again, sysVars, in_separators, in_rates, lhs, bounds, inclusive,
                   amount, bracket, taxes, mergeVars>>

\* lhs.calc_net(back) on the gross amount an inverse query returned
CalcNetOf ==
    /\ pc = "inverse"
    /\ ~IsPanic(back)
    /\ net_again' = IF back = Wrapped THEN calc_net_of_wrapped(lhs, net)
                    ELSE calc_net(lhs, back)
    /\ pc' = "renetted"
    /\ UNCHANGED <<mainVars, citizenVars, sysVars, in_separators, in_rates, lhs, bounds, inclusive,
                   queryVars, mergeVars>>

NextQuery ==
    \/ CalcNetOf
    \/ \E gross \in Amounts : CalcTaxes(gross)
    \/ CalcNet
    \/ \E overflow_checks \in BOOLEAN : CalcGross(overflow_checks)
    \/ \E n \in Amounts, overflow_checks \in BOOLEAN : CalcGrossOf(n, overflow_checks)

SpecQuery == InitQuery /\ [][NextQuery]_vars

(***************************************************************************)
(* Merging: two valid schedules are built, merged in both orders, and      *)
(* merged with a third schedule in both groupings.                         *)
(***************************************************************************)
InitMerge ==
    /\ pc = "pair"
    /\ \E a \in LhsInputs, b \in RhsInputs :
          /\ in_separators = a[1]
          /\ in_rates = a[2]
          /\ lhs = new(a[1], a[2])
          /\ rhs = new(b[1], b[2])
    /\ bounds = <<>>
    /\ inclusive = TRUE
    /\ amount = Zero
    /\ bracket = 0
    /\ taxes = Zero
    /\ net = Zero
    /\ back = Zero
    /\ net_again = Zero
    /\ NoCitizen
    /\ NoCopy
    /\ merged = NoBrackets
    /\ swapped = NoBrackets
    /\ third = NoBrackets
    /\ merged_left = NoBrackets
    /\ merged_right = NoBrackets
    /\ NoSystems

\* TaxBrackets::merge(lhs, rhs)
Merge ==
    /\ pc = "pair"
    /\ merged' = merge(lhs, rhs)
    /\ pc' = "merged"
    /\ UNCHANGED <<mainVars, citizenVars, net_again, sysVars, in_separators, in_rates, lhs, bounds, inclusive, queryVars,
                   rhs, swapped, third, merged_left, merged_right>>

\* TaxBrackets::merge(rhs, lhs)
MergeSwapped ==
    /\ pc = "merged"
    /\ swapped' = merge(rhs, lhs)
    /\ pc' = "swapped"
    /\ UNCHANGED <<mainVars, citizenVars, net_again, sysVars, in_separators, in_rates, lhs, bounds, inclusive, queryVars,
                   rhs, merged, third, merged_left, merged_right>>

\* a third schedule is built and merged in both groupings
MergeThird(separators, rates) ==
    /\ pc = "merged"
    /\ third' = new(separators, rates)
    /\ merged_left' = merge(merged, third')
    /\ merged_right' = merge(lhs, merge(rhs, third'))
    /\ pc' = "grouped"
    /\ UNCHANGED <<mainVars, citizenVars, net_again, sysVars, in_separators, in_rates, lhs, bounds, inclusive, queryVars,
                   rhs, merged, swapped>>

NextMerge ==
    \/ Merge
    \/ MergeSwapped
    \/ \E c \in ThirdInputs : MergeThird(c[1], c[2])

SpecMerge == InitMerge /\ [][NextMerge]_vars

(***************************************************************************)
(* Tax systems: a system is built from a table of schedules, then queried  *)
(* under a filing status or merged with a second system.                   *)
(***************************************************************************)
InitSystem ==
    /\ pc = "system"
    /\ \E brackets_by_status \in SysTables :
          sys_lhs = TaxSystem_new(brackets_by_status)
    /\ status = "Single"
    /\ sys_rhs = NoSystem
    /\ sys_merged = NoSystem
    /\ layers = <<None, None, None>>
    /\ loc_sys = None
    /\ NoSchedules
    /\ amount = Zero
    /\ taxes = Zero
    /\ net = Zero
    /\ back = Zero
    /\ net_again = Zero
    /\ NoCitizen
    /\ NoCopy

\* sys_lhs.calc_taxes(gross, s)
SysCalcTaxes(gross, s) ==
    /\ pc = "system"
    /\ status' = s
    /\ amount' = gross
    /\ taxes' = TaxSystem_calc_taxes(sys_lhs, gross, s)
    /\ pc' = "sys_taxed"
    /\ UNCHANGED <<mainVars, citizenVars, net_again, in_separators, in_rates, lhs, bounds, inclusive, bracket,
                   net, back, mergeVars, sys_lhs, sys_rhs, sys_merged,
                   layers, loc_sys>>

\* sys_lhs.calc_net(gross, s)
SysCalcNet(gross, s) ==
    /\ pc = "system"
    /\ status' = s
    /\ amount' = gross
    /\ net' = TaxSystem_calc_net(sys_lhs, gross, s)
    /\ pc' = "sys_netted"
    /\ UNCHANGED <<mainVars, citizenVars, net_again, in_separators, in_rates, lhs, bounds, inclusive, bracket,
                   taxes, back, mergeVars, sys_lhs, sys_rhs, sys_merged,
                   layers, loc_sys>>

\* sys_lhs.calc_gross(n, s), in a build with or without overflow checks
SysCalcGross(n, s, overflow_checks) ==
    /\ pc = "system"
    /\ status' = s
    /\ net' = n
    /\ back' = TaxSystem_calc_gross(sys_lhs, n, s, overflow_checks)
    /\ pc' = "sys_inverted"
    /\ UNCHANGED <<mainVars, citizenVars, net_again, in_separators, in_rates, lhs, bounds, inclusive, bracket,
                   amount, taxes, mergeVars, sys_lhs, sys_rhs, sys_merged,
                   layers, loc_sys>>

\* TaxSystem::merge(sys_lhs, TaxSystem::new(brackets_by_status))
SysMerge(brackets_by_status) ==
    /\ pc = "system"
    /\ sys_rhs' = TaxSystem_new(brackets_by_status)
    /\ sys_merged' = TaxSystem_merge(sys_lhs, TaxSystem_new(brackets_by_status))
    /\ pc' = "sys_merged"
    /\ UNCHANGED <<mainVars, citizenVars, net_again, in_separators, in_rates, lhs, bounds, inclusive, queryVars,
                   mergeVars, status, sys_lhs, layers, loc_sys>>

NextSystem ==
    \/ pc = "system" /\ \E gross \in Amounts, s \in Statuses : SysCalcTaxes(gross, s)
    \/ pc = "system" /\ \E gross \in Amounts, s \in Statuses : SysCalcNet(gross, s)
    \/ pc = "system" /\ \E n \in Amounts, s \in Statuses, overflow_checks \in BOOLEAN :
                            SysCalcGross(n, s, overflow_checks)
    \/ pc = "system" /\ \E brackets_by_status \in RhsSysTables :
                            SysMerge(brackets_by_status)

SpecSystem == InitSystem /\ [][NextSystem]_vars

(***************************************************************************)
(* Locations: the three layers of a location are looked up, then the       *)
(* location is queried; every query folds the layers anew.                 *)
(***************************************************************************)
InitLocation ==
    /\ pc = "location"
    /\ \E loc \in Locations : layers = Location_layers(loc)
    /\ loc_sys = None
    /\ status = "Single"
    /\ sys_lhs = NoSystem
    /\ sys_rhs = NoSystem
    /\ sys_merged = NoSystem
    /\ NoSchedules
    /\ amount = Zero
    /\ taxes = Zero
    /\ net = Zero
    /\ back = Zero
    /\ net_again = Zero
    /\ NoCitizen
    /\ NoCopy

\* Location::tax_system
LocTaxSystem ==
    /\ pc = "location"
    /\ loc_sys' = Location_tax_system(layers)
    /\ pc' = "located"
    /\ UNCHANGED <<mainVars, citizenVars, net_again, in_separators, in_rates, lhs, bounds, inclusive, queryVars,
                   mergeVars, status, sys_lhs, sys_rhs, sys_merged, layers>>

\* Location::calc_taxes(gross, s)
LocCalcTaxes(gross, s) ==
    /\ pc = "location"
    /\ status' = s
    /\ amount' = gross
    /\ taxes' = Location_calc_taxes(layers, gross, s)
    /\ pc' = "loc_taxed"
    /\ UNCHANGED <<mainVars, citizenVars, net_again, in_separators, in_rates, lhs, bounds, inclusive, bracket,
                   net, back, mergeVars, sys_lhs, sys_rhs, sys_merged,
                   layers, loc_sys>>

\* Location::calc_net(gross, s)
LocCalcNet(gross, s) ==
    /\ pc = "location"
    /\ status' = s
    /\ amount' = gross
    /\ net' = Location_calc_net(layers, gross, s)
    /\ pc' = "loc_netted"
    /\ UNCHANGED <<mainVars, citizenVars, net_again, in_separators, in_rates, lhs, bounds, inclusive, bracket,
                   taxes, back, mergeVars, sys_lhs, sys_rhs, sys_merged,
                   layers, loc_sys>>

\* Location::calc_gross(n, s), in a build with or without overflow checks
LocCalcGross(n, s, overflow_checks) ==
    /\ pc = "location"
    /\ status' = s
    /\ net' = n
    /\ back' = Location_calc_gross(layers, n, s, overflow_checks)
    /\ pc' = "loc_inverted"
    /\ UNCHANGED <<mainVars, citizenVars, net_again, in_separators, in_rates, lhs, bounds, inclusive, bracket,
                   amount, taxes, mergeVars, sys_lhs, sys_rhs, sys_merged,
                   layers, loc_sys>>

NextLocation ==
    \/ LocTaxSystem
    \/ pc = "location" /\ \E gross \in LocAmounts, s \in Statuses : LocCalcTaxes(gross, s)
    \/ pc = "location" /\ \E gross \in LocAmounts, s \in Statuses : LocCalcNet(gross, s)
    \/ pc = "location" /\ \E n \in LocAmounts, s \in Statuses, overflow_checks \in BOOLEAN :
                              LocCalcGross(n, s, overflow_checks)

SpecLocation == InitLocation /\ [][NextLocation]_vars

(***************************************************************************)
(* Citizens: the static tables are fixed, a citizen with a home is given,  *)
(* and the income equivalent at a target location is estimated.            *)
(***************************************************************************)
\* Location::get_living_costs_factor: the living-cost factor of the
\* jurisdiction, a positive rational
get_living_costs_factor(tbl, loc) == tbl.living_costs[loc]

\* the net income the target must leave: the home net itself, or the
\* disposable part of it plus the fixed expenses scaled by the living costs
equivalent_net_less(tbl, c, tgt, net_home, annual_expenses) ==
    IF RLt(net_home, annual_expenses) THEN Panic
    ELSE RAdd(RSub(net_home, annual_expenses),
              RMul(annual_expenses,
                   RDiv(get_living_costs_factor(tbl, tgt),
                        get_living_costs_factor(tbl, c.home))))

equivalent_net(tbl, c, tgt, m, net_home) ==
    IF IsPanic(net_home) THEN Panic
    ELSE IF m = "PostTax" THEN net_home
    ELSE equivalent_net_less(tbl, c, tgt, net_home,
                             RMul(FromInteger(MonthsPerYear), c.monthly_expenses))

\* target.calc_gross of that net
equivalent_gross(tgt, s, target_net, overflow_checks) ==
    IF IsPanic(target_net) THEN Panic
    ELSE Location_calc_gross(Location_layers(tgt), target_net, s,
                             overflow_checks)

\* an estimate that does not add the fixed expenses back before inverting
estimate_equivalent_income_at_drop_expenses(tbl, c, tgt, m, overflow_checks) ==
    LET net_home == Location_calc_net(Location_layers(c.home), c.income, c.status)
    IN IF IsPanic(net_home) THEN Panic
       ELSE IF m = "PostTax"
       THEN Location_calc_gross(Location_layers(tgt), net_home, c.status,
                                overflow_checks)
       ELSE LET annual_expenses ==
                    RMul(FromInteger(MonthsPerYear), c.monthly_expenses)
            IN IF RLt(net_home, annual_expenses) THEN Panic
               ELSE Location_calc_gross(Location_layers(tgt),
                                        RSub(net_home, annual_expenses),
                                        c.status, overflow_checks)

\* Citizen::estimate_equivalent_income_at(target, mode)
estimate_equivalent_income_at(tbl, c, tgt, m, overflow_checks) ==
    equivalent_gross(tgt, c.status,
                     equivalent_net(tbl, c, tgt, m,
                                    Location_calc_net(Location_layers(c.home),
                                                      c.income, c.status)),
                     overflow_checks)

InitCitizen ==
    /\ pc = "tables"
    /\ \E f \in LivingCosts : tables = [living_costs |-> f]
    /\ citizen = [income |-> Zero, monthly_expenses |-> Zero, status |-> "Single",
                  home |-> [country |-> "USA", state |-> "TX", city |-> "AUS"]]
    /\ target = [country |-> "USA", state |-> "TX", city |-> "AUS"]
    /\ mode = "PostTax"
    /\ estimate = Zero
    /\ NoSystems
    /\ NoSchedules
    /\ amount = Zero
    /\ taxes = Zero
    /\ net = Zero
    /\ back = Zero
    /\ net_again = Zero
    /\ NoCopy

\* Citizen { income, monthly_expenses, status, home }
NewCitizen(income, monthly_expenses, s, home) ==
    /\ pc = "tables"
    /\ citizen' = [income |-> income, monthly_expenses |-> monthly_expenses,
                   status |-> s, home |-> home]
    /\ pc' = "citizen"
    /\ UNCHANGED <<mainVars, in_separators, in_rates, lhs, bounds, inclusive, queryVars,
                   net_again, mergeVars, sysVars, tables, target, mode, estimate>>

\* citizen.estimate_equivalent_income_at(tgt, m), in a build with or without
\* overflow checks
Estimate(tgt, m, overflow_checks) ==
    /\ pc = "citizen"
    /\ target' = tgt
    /\ mode' = m
    /\ estimate' = estimate_equivalent_income_at(tables, citizen, tgt, m,
                                                 overflow_checks)
    /\ pc' = "estimated"
    /\ UNCHANGED <<mainVars, in_separators, in_rates, lhs, bounds, inclusive, queryVars,
                   net_again, mergeVars, sysVars, tables, citizen>>

NextCitizen ==
    \/ pc = "tables" /\ \E income \in Incomes, monthly_expenses \in Expenses,
                           s \in CitizenStatuses, home \in CitizenLocations :
                            NewCitizen(income, monthly_expenses, s, home)
    \/ pc = "citizen" /\ \E tgt \in CitizenLocations, m \in {"PostTax", "Disposable"},
                            overflow_checks \in BOOLEAN :
                            Estimate(tgt, m, overflow_checks)

SpecCitizen == InitCitizen /\ [][NextCitizen]_vars

(***************************************************************************)
(* The two copies side by side: both are given the same arguments, then    *)
(* the same operation is run on each.                                      *)
(***************************************************************************)
InitCopies ==
    /\ pc = "copies"
    /\ \E a \in LhsInputs, b \in ThirdInputs :
          /\ in_separators = a[1]
          /\ in_rates = a[2]
          /\ lhs = new(a[1], a[2])
          /\ rhs = new(b[1], b[2])
          /\ main_copy = [lhs |-> main_new(a[1], a[2]), rhs |-> main_new(b[1], b[2])]
    /\ main_out = Zero
    /\ bounds = <<>>
    /\ inclusive = TRUE
    /\ bracket = 0
    /\ merged = NoBrackets
    /\ swapped = NoBrackets
    /\ third = NoBrackets
    /\ merged_left = NoBrackets
    /\ merged_right = NoBrackets
    /\ amount = Zero
    /\ taxes = Zero
    /\ net = Zero
    /\ back = Zero
    /\ net_again = Zero
    /\ NoSystems
    /\ NoCitizen

\* calc_taxes(gross) on both copies
BothCalcTaxes(gross) ==
    /\ pc = "copies"
    /\ amount' = gross
    /\ taxes' = calc_taxes(lhs, gross)
    /\ main_out' = main_calc_taxes(main_copy.lhs, gross)
    /\ pc' = "copies_taxed"
    /\ UNCHANGED <<in_separators, in_rates, lhs, bounds, inclusive, bracket,
                   net, back, net_again, mergeVars, sysVars, citizenVars,
                   main_copy>>

\* calc_gross(n) on both copies, in a build with or without overflow checks
BothCalcGross(n, overflow_checks) ==
    /\ pc = "copies"
    /\ net' = n
    /\ back' = calc_gross(lhs, n, overflow_checks)
    /\ main_out' = main_calc_gross(main_copy.lhs, n, overflow_checks)
    /\ pc' = "copies_inverted"
    /\ UNCHANGED <<in_separators, in_rates, lhs, bounds, inclusive, bracket,
                   amount, taxes, net_again, mergeVars, sysVars, citizenVars,
                   main_copy>>

\* merge(lhs, rhs) on both copies
BothMerge ==
    /\ pc = "copies"
    /\ merged' = merge(lhs, rhs)
    /\ main_out' = main_merge(main_copy.lhs, main_copy.rhs)
    /\ pc' = "copies_merged"
    /\ UNCHANGED <<in_separators, in_rates, lhs, bounds, inclusive, queryVars,
                   net_again, rhs, swapped, third, merged_left, merged_right,
                   sysVars, citizenVars, main_copy>>

NextCopies ==
    \/ pc = "copies" /\ \E gross \in Amounts : BothCalcTaxes(gross)
    \/ pc = "copies" /\ \E n \in Amounts, overflow_checks \in BOOLEAN :
                           BothCalcGross(n, overflow_checks)
    \/ BothMerge

SpecCopies == InitCopies /\ [][NextCopies]_vars

(***************************************************************************)
(* Properties.                                                             *)
(***************************************************************************)
Queried == pc \in {"taxed", "netted", "inverted"}

\* C1: round trip.  On a schedule with strictly increasing separators and
\* rates in [0, 1), calc_gross applied to calc_net(g) returns exactly g.
C1_RoundTrip ==
    (pc = "inverted" /\ Valid(lhs)) => back = amount

\* a round trip through a three-bracket schedule with non-zero rates, for a
\* gross amount that is exactly the first separator
C1_Witness ==
    /\ pc = "inverted"
    /\ Valid(lhs)
    /\ Len(lhs.separators) = 2
    /\ \A k \in 1..3 : lhs.rates[k] # Zero
    /\ amount = lhs.separators[1]
    /\ amount # Zero
    /\ back = amount

\* the tax owed on the part of (0, gross] inside each of the brackets k..N,
\* each part taxed at its own bracket's rate
RECURSIVE ReferenceTaxFrom(_, _, _)
ReferenceTaxFrom(t, gross, k) ==
    IF k > Len(t.rates) THEN Zero
    ELSE LET lo == IF k = 1 THEN Zero ELSE t.separators[k - 1]
             hi == IF k = Len(t.rates) THEN gross
                   ELSE IF RLt(gross, t.separators[k]) THEN gross
                   ELSE t.separators[k]
             inside == IF RLt(lo, hi) THEN RSub(hi, lo) ELSE Zero
         IN RAdd(RMul(inside, t.rates[k]), ReferenceTaxFrom(t, gross, k + 1))

\* C3: calc_taxes(g) is the progressive tax: the sum over the brackets of the
\* bracket's rate times the income of (0, g] that lies inside the bracket.
C3_ProgressiveTax ==
    (Queried /\ Valid(lhs)) => taxes = ReferenceTaxFrom(lhs, amount, 1)

\* an amount in the top bracket of a three-bracket schedule whose rates differ
C3_Witness ==
    /\ pc = "taxed"
    /\ Valid(lhs)
    /\ Len(lhs.separators) = 2
    /\ lhs.rates[1] # lhs.rates[2]
    /\ lhs.rates[2] # lhs.rates[3]
    /\ lhs.rates[1] # Zero
    /\ RLt(lhs.separators[2], amount)
    /\ taxes = ReferenceTaxFrom(lhs, amount, 1)

\* C4 as stated: new fails exactly when the number of rates is not the number
\* of separators plus one, and otherwise succeeds with
\* len(flats) = len(rates) = len(separators) + 1.
C4_Original ==
    pc \in {"built", "failed"} =>
        /\ lhs.ok <=> (Len(in_rates) = Len(in_separators) + 1)
        /\ lhs.ok => /\ Len(lhs.flats) = Len(lhs.rates)
                     /\ Len(lhs.rates) = Len(lhs.separators) + 1

\* C4 amended: new fails when the number of rates is not the number of
\* separators plus one or when some separator is smaller than the one before
\* it; otherwise it succeeds with len(flats) = len(rates) = len(separators) + 1.
C4_Construction ==
    pc \in {"built", "failed"} =>
        /\ lhs.ok <=> /\ Len(in_rates) = Len(in_separators) + 1
                      /\ NonDecreasing(in_separators)
        /\ lhs.ok => /\ Len(lhs.flats) = Len(lhs.rates)
                     /\ Len(lhs.rates) = Len(lhs.separators) + 1
                     /\ lhs.separators = in_separators
                     /\ lhs.rates = in_rates

\* new panicked although the lengths agree: a separator is below its
\* predecessor
C4_Witness ==
    /\ pc = "failed"
    /\ Len(in_rates) = Len(in_separators) + 1
    /\ ~NonDecreasing(in_separators)

\* C5: new never returns a schedule that contains a rate outside [0, 1).
C5_RatesChecked ==
    lhs.ok => RatesValid(lhs.rates)

\* C6: non-negativity.  On a valid schedule calc_taxes(g) >= 0, calc_net(g)
\* does not fail, and calc_net(g) <= g.
C6_NonNegative ==
    (pc \in {"netted", "inverted"} /\ Valid(lhs)) =>
        /\ ~IsPanic(taxes)
        /\ RLe(Zero, taxes)
        /\ ~IsPanic(net)
        /\ RLe(net, amount)

\* a positive tax strictly below a gross amount in the second bracket
C6_Witness ==
    /\ pc = "netted"
    /\ Valid(lhs)
    /\ Len(lhs.separators) >= 1
    /\ RLt(lhs.separators[1], amount)
    /\ RLt(Zero, taxes)
    /\ RLt(net, amount)
    /\ ~IsPanic(net)

\* C7: monotonicity.  On a valid schedule, g1 <= g2 implies
\* calc_taxes(g1) <= calc_taxes(g2) and calc_net(g1) <= calc_net(g2).
C7_Monotone ==
    (pc = "netted" /\ Valid(lhs)) =>
        \A g2 \in Amounts :
            RLe(amount, g2) =>
                /\ ~IsPanic(taxes) /\ ~IsPanic(calc_taxes(lhs, g2))
                /\ RLe(taxes, calc_taxes(lhs, g2))
                /\ ~IsPanic(net) /\ ~IsPanic(calc_net(lhs, g2))
                /\ RLe(net, calc_net(lhs, g2))

\* a query in the first bracket of a schedule whose rate drops in the next
\* bracket, with a larger amount in that next bracket
C7_Witness ==
    /\ pc = "netted"
    /\ Valid(lhs)
    /\ Len(lhs.separators) = 2
    /\ RLt(lhs.rates[2], lhs.rates[1])
    /\ RLt(amount, lhs.separators[1])
    /\ \E g2 \in Amounts : /\ RLt(lhs.separators[1], g2)
                           /\ RLt(taxes, calc_taxes(lhs, g2))
                           /\ RLt(net, calc_net(lhs, g2))

\* C8: boundary exactness.  A gross amount equal to separators[i] is matched
\* by bracket i, whose range starts exclusive (or unbounded) and ends
\* inclusive at that separator, and is taxed with flats[i] and rates[i].
C8_Boundary ==
    (pc = "taxed" /\ Valid(lhs)) =>
        \A i \in 1..Len(lhs.separators) :
            amount = lhs.separators[i] =>
                LET range == multibound_to_bounds_iter(lhs.separators, TRUE)[i]
                    start == IF i = 1 THEN Zero ELSE lhs.separators[i - 1]
                IN /\ bracket = i
                   /\ range[2] = Included(lhs.separators[i])
                   /\ range[1] = (IF i = 1 THEN Unbounded
                                  ELSE Excluded(lhs.separators[i - 1]))
                   /\ taxes = RAdd(lhs.flats[i],
                                   RMul(RSub(amount, start), lhs.rates[i]))

\* a gross amount equal to the second separator, matched by the second bracket
C8_Witness ==
    /\ pc = "taxed"
    /\ Valid(lhs)
    /\ Len(lhs.separators) = 2
    /\ amount = lhs.separators[2]
    /\ bracket = 2
    /\ lhs.rates[2] # lhs.rates[3]

\* C9: totality of the bound pairing.  For strictly increasing separators the
\* pairing yields one range more than there are separators, the first
\* unbounded below and the last unbounded above, and every value lies in
\* exactly one range, under both conventions.
C9_Totality ==
    (pc = "paired" /\ StrictlyIncreasing(in_separators)) =>
        /\ Len(bounds) = Len(in_separators) + 1
        /\ bounds[1][1] = Unbounded
        /\ bounds[Len(bounds)][2] = Unbounded
        /\ \A x \in Amounts :
              Cardinality({k \in 1..Len(bounds) : contains(bounds[k], x)}) = 1

\* two separators paired under the convention that gives a separator to the
\* upper range
C9_Witness ==
    /\ pc = "paired"
    /\ ~inclusive
    /\ Len(in_separators) = 2
    /\ StrictlyIncreasing(in_separators)
    /\ Len(bounds) = 3
    /\ contains(bounds[2], in_separators[1])

\* C2: merge additivity.  The merge of two valid schedules exists and its
\* calc_taxes is the sum of the two schedules' calc_taxes at every amount.
C2_MergeAdditive ==
    (pc = "merged" /\ Valid(lhs) /\ Valid(rhs)) =>
        /\ merged.ok
        /\ \A g \in Amounts :
              LET merged_taxes == calc_taxes(merged, g)
              IN /\ ~IsPanic(merged_taxes)
                 /\ merged_taxes = RAdd(calc_taxes(lhs, g), calc_taxes(rhs, g))

\* a merge of a three-bracket and a two-bracket schedule: the first merged
\* separator comes from lhs alone, the second from both sides, and the
\* merged taxes above all separators are the sum of two positive taxes
C2_Witness ==
    /\ pc = "merged"
    /\ Valid(lhs) /\ Valid(rhs)
    /\ Len(lhs.separators) = 2 /\ Len(rhs.separators) = 1
    /\ rhs.separators[1] = lhs.separators[2]
    /\ merged.ok
    /\ Len(merged.separators) = 2
    /\ lhs.rates[1] # lhs.rates[2] /\ rhs.rates[1] # rhs.rates[2]
    /\ \E g \in Amounts :
          /\ RLt(lhs.separators[2], g)
          /\ RLt(Zero, calc_taxes(lhs, g)) /\ RLt(Zero, calc_taxes(rhs, g))
          /\ calc_taxes(merged, g) = RAdd(calc_taxes(lhs, g), calc_taxes(rhs, g))

\* C10: merge is commutative and associative in the tax function: merge(a, b)
\* and merge(b, a), and merge(merge(a, b), c) and merge(a, merge(b, c)),
\* exist and have equal calc_taxes at every amount.
C10_MergeCommAssoc ==
    /\ (pc = "swapped" /\ Valid(lhs) /\ Valid(rhs)) =>
          /\ merged.ok /\ swapped.ok
          /\ \A g \in Amounts :
                LET merged_taxes == calc_taxes(merged, g)
                IN /\ ~IsPanic(merged_taxes)
                   /\ merged_taxes = calc_taxes(swapped, g)
    /\ (pc = "grouped" /\ Valid(lhs) /\ Valid(rhs) /\ Valid(third)) =>
          /\ merged_left.ok /\ merged_right.ok
          /\ \A g \in Amounts :
                LET left_taxes == calc_taxes(merged_left, g)
                IN /\ ~IsPanic(left_taxes)
                   /\ left_taxes = calc_taxes(merged_right, g)

\* three schedules with separators on different sides, merged in both
\* groupings: the third schedule's separator lies below the separator of rhs
C10_Witness ==
    /\ pc = "grouped"
    /\ Valid(lhs) /\ Valid(rhs) /\ Valid(third)
    /\ Len(lhs.separators) = 2 /\ Len(rhs.separators) = 1
    /\ Len(third.separators) = 1
    /\ RLt(third.separators[1], rhs.separators[1])
    /\ lhs.rates[1] # lhs.rates[2] /\ rhs.rates[1] # rhs.rates[2]
    /\ third.rates[1] # third.rates[2]
    /\ merged_left.ok /\ merged_right.ok
    /\ Len(merged_left.separators) = 2
    /\ \E g \in Amounts : /\ RLt(Zero, calc_taxes(merged_left, g))
                          /\ calc_taxes(merged_left, g) = calc_taxes(merged_right, g)

\* a flat schedule: no separators and the single rate 0
FlatZero(t) == t.ok /\ t.separators = <<>> /\ t.rates = <<Zero>>

\* C11: merge identity.  Merging a valid schedule with a flat zero-rate
\* schedule, on either side, yields a schedule with the same separators and
\* rates, so calc_taxes, calc_net and calc_gross agree at every amount.
C11_MergeIdentity ==
    (pc = "merged" /\ Valid(lhs) /\ Valid(rhs)) =>
        /\ FlatZero(rhs) =>
              /\ merged.ok
              /\ merged.separators = lhs.separators
              /\ merged.rates = lhs.rates
              /\ \A g \in Amounts :
                    /\ calc_taxes(merged, g) = calc_taxes(lhs, g)
                    /\ calc_net(merged, g) = calc_net(lhs, g)
                    /\ calc_gross(merged, g, TRUE) = calc_gross(lhs, g, TRUE)
        /\ FlatZero(lhs) =>
              /\ merged.ok
              /\ merged.separators = rhs.separators
              /\ merged.rates = rhs.rates
              /\ \A g \in Amounts :
                    /\ calc_taxes(merged, g) = calc_taxes(rhs, g)
                    /\ calc_net(merged, g) = calc_net(rhs, g)
                    /\ calc_gross(merged, g, TRUE) = calc_gross(rhs, g, TRUE)

\* a three-bracket schedule with differing non-zero rates merged with the
\* flat zero-rate schedule on the right
C11_Witness ==
    /\ pc = "merged"
    /\ Valid(lhs)
    /\ FlatZero(rhs)
    /\ Len(lhs.separators) = 2
    /\ lhs.rates[1] # Zero /\ lhs.rates[2] # lhs.rates[1]
    /\ merged.separators = lhs.separators
    /\ merged.rates = lhs.rates

SepSet(seps) == {seps[k] : k \in 1..Len(seps)}

\* the merge of separators 10000 with rates 0.10, 0.20 and separators 5000
\* with rates 0.05, 0.15
MergedExample ==
    merge(new(<<FromInteger(10000)>>, <<Ratio(10, 100), Ratio(20, 100)>>),
          new(<<FromInteger(5000)>>, <<Ratio(5, 100), Ratio(15, 100)>>))

\* C12: the merged separator list is the sorted set union of both inputs:
\* strictly increasing, holding every separator of either side exactly once,
\* a separator of both sides once.  Separators 10000 and 5000 merge to
\* 5000, 10000.
C12_SortedUnion ==
    /\ (pc = "merged" /\ Valid(lhs) /\ Valid(rhs)) =>
          /\ merged.ok
          /\ StrictlyIncreasing(merged.separators)
          /\ SepSet(merged.separators)
                = SepSet(lhs.separators) \cup SepSet(rhs.separators)
          /\ Len(merged.separators)
                = Cardinality(SepSet(lhs.separators) \cup SepSet(rhs.separators))
    /\ MergedExample.separators
          = <<FromInteger(5000), FromInteger(10000)>>

\* both sides have two separators and share both of them
C12_Witness ==
    /\ pc = "merged"
    /\ Valid(lhs) /\ Valid(rhs)
    /\ Len(lhs.separators) = 2
    /\ rhs.separators = lhs.separators
    /\ merged.ok
    /\ merged.separators = lhs.separators

\* the marginal rate of the bracket that taxes the amount x
rate_at(t, x) ==
    t.rates[first_bracket(multibound_to_bounds_iter(t.separators, TRUE),
                          taxation_info_len(t), x)]

\* C13: merge emits one rate more than merged separators without failing, and
\* the merged rate that applies to an income is the lhs rate plus the rhs
\* rate that apply to that income.  The merge of separators 10000 with rates
\* 0.10, 0.20 and separators 5000 with rates 0.05, 0.15 has the rates
\* 0.15, 0.25, 0.35.
C13_MergedRates ==
    /\ (pc = "merged" /\ Valid(lhs) /\ Valid(rhs)) =>
          /\ merged.ok
          /\ Len(merged.rates) = Len(merged.separators) + 1
          /\ \A g \in Amounts :
                rate_at(merged, g) = RAdd(rate_at(lhs, g), rate_at(rhs, g))
    /\ MergedExample.rates
          = <<Ratio(15, 100), Ratio(25, 100), Ratio(35, 100)>>

\* rhs has the lower separator and lhs the higher one; all four rates differ
\* from their neighbour
C13_Witness ==
    /\ pc = "merged"
    /\ Valid(lhs) /\ Valid(rhs)
    /\ Len(lhs.separators) = 1 /\ Len(rhs.separators) = 1
    /\ RLt(rhs.separators[1], lhs.separators[1])
    /\ lhs.rates[1] # lhs.rates[2] /\ rhs.rates[1] # rhs.rates[2]
    /\ merged.ok
    /\ Len(merged.rates) = 3
    /\ merged.rates[2] = RAdd(lhs.rates[1], rhs.rates[2])

Inverted == pc \in {"inverted", "inverse"}

\* the post-tax separator that closes bracket i
PostTaxSep(t, i) == RSub(t.separators[i], t.flats[i + 1])

\* bracket i of t contains the net amount n among the post-tax separators
NetIn(t, n, i) ==
    /\ i = 1 \/ RLt(PostTaxSep(t, i - 1), n)
    /\ i = Len(t.rates) \/ RLe(n, PostTaxSep(t, i))

\* the first bracket whose post-tax range contains the net amount n
NetBracket(t, n) ==
    CHOOSE i \in 1..Len(t.rates) :
        NetIn(t, n, i) /\ \A j \in 1..(i - 1) : ~NetIn(t, n, j)

\* flats[i] + prev_bucket + over_amount / (1 - rates[i]) for the net amount n
\* in bracket i, with over_amount counted from the bracket's post-tax start;
\* 1 - rates[i] is the value the build computes in 64-bit unsigned rationals
GrossFormula(t, n, i, prev_bucket, overflow_checks) ==
    LET over_amount == IF i = 1 THEN n ELSE RSub(n, PostTaxSep(t, i - 1))
        one_minus_rate == percentage_of_gross(t.rates[i], overflow_checks)
    IN IF one_minus_rate = Wrapped /\ over_amount # Zero THEN Wrapped
       ELSE RAdd(RAdd(t.flats[i], prev_bucket),
                 RDiv(over_amount, one_minus_rate))

\* C16 as stated: calc_gross returns flats[i] + prev_bucket +
\* over_amount / (1 - rates[i]) where prev_bucket is the pre-tax separator at
\* the start of bracket i (zero if unbounded).
C16_Original ==
    (Inverted /\ lhs.ok /\ gross_lookup(lhs, net) > 0) =>
        LET i == gross_lookup(lhs, net)
        IN \E overflow_checks \in BOOLEAN :
              back = GrossFormula(lhs, net, i,
                                  IF i = 1 THEN Zero ELSE lhs.separators[i - 1],
                                  overflow_checks)

\* C16 amended: the bracket calc_gross selects is the first one whose
\* post-tax range contains net, and prev_bucket is the post-tax separator at
\* the start of that bracket (zero if unbounded), the same value over_amount
\* is counted from; the result is flats[i] + prev_bucket +
\* over_amount / (1 - rates[i]), with 1 - rates[i] as the build computes it.
C16_InverseFormula ==
    (Inverted /\ lhs.ok /\ gross_lookup(lhs, net) > 0) =>
        LET i == gross_lookup(lhs, net)
        IN /\ i = NetBracket(lhs, net)
           /\ \E overflow_checks \in BOOLEAN :
                 back = GrossFormula(lhs, net, i,
                                     IF i = 1 THEN Zero
                                     ELSE PostTaxSep(lhs, i - 1),
                                     overflow_checks)

\* a net amount in the top bracket of a three-bracket schedule that enters
\* that bracket with a positive flat deduction
C16_Witness ==
    /\ Inverted
    /\ Valid(lhs)
    /\ Len(lhs.separators) = 2
    /\ gross_lookup(lhs, net) = 3
    /\ lhs.flats[3] # Zero
    /\ lhs.rates[3] # Zero
    /\ ~IsPanic(back)

\* C17: when the bracket calc_gross selects has a rate that is not strictly
\* below 1, calc_gross fails.
C17_FailsLoudly ==
    (Inverted /\ lhs.ok /\ gross_lookup(lhs, net) > 0) =>
        (~RLt(lhs.rates[gross_lookup(lhs, net)], One) => IsPanic(back))

\* C19: on every constructed schedule and for every amount, the forward
\* lookup and the inverse lookup each find a containing bracket.
C19_LookupsFind ==
    (pc \in {"taxed", "inverse"} /\ lhs.ok) =>
        /\ pc = "taxed" => bracket > 0
        /\ pc = "inverse" => gross_lookup(lhs, net) > 0

\* C18: flats[0] = 0 and each later entry is the previous entry plus the
\* preceding bracket's width times the preceding bracket's rate; flats is
\* non-decreasing; each entry is calc_taxes at the separator that opens its
\* bracket.  Separators 10000 with rates 0.10, 0.20 give flats 0, 1000.
C18_Flats ==
    /\ pc = "built" =>
          /\ lhs.flats[1] = Zero
          /\ \A i \in 2..Len(lhs.flats) :
                LET below == IF i = 2 THEN Zero ELSE lhs.separators[i - 2]
                IN /\ lhs.flats[i]
                        = RAdd(lhs.flats[i - 1],
                               RMul(RSub(lhs.separators[i - 1], below),
                                    lhs.rates[i - 1]))
                   /\ RLe(lhs.flats[i - 1], lhs.flats[i])
                   /\ lhs.flats[i] = calc_taxes(lhs, lhs.separators[i - 1])
    /\ new(<<FromInteger(10000)>>, <<Ratio(10, 100), Ratio(20, 100)>>).flats
          = <<Zero, FromInteger(1000)>>

\* three brackets over two distinct positive separators, the first two
\* rates different and positive
C18_Witness ==
    /\ pc = "built"
    /\ Len(lhs.separators) = 2
    /\ RLt(Zero, lhs.separators[1])
    /\ RLt(lhs.separators[1], lhs.separators[2])
    /\ lhs.rates[1] # Zero /\ lhs.rates[2] # Zero
    /\ lhs.rates[1] # lhs.rates[2]
    /\ RLt(lhs.flats[2], lhs.flats[3])

\* C14: for a status without a schedule calc_taxes returns zero and calc_net
\* and calc_gross return their input, without failing; for a status with a
\* schedule the three return what that schedule returns.
C14_StatusQuery ==
    LET entry == sys_lhs.brackets[status]
    IN /\ pc = "sys_taxed" =>
             taxes = IF entry.some THEN calc_taxes(entry.v, amount) ELSE Zero
       /\ pc = "sys_netted" =>
             net = IF entry.some THEN calc_net(entry.v, amount) ELSE amount
       /\ pc = "sys_inverted" =>
             IF entry.some
             THEN \E overflow_checks \in BOOLEAN :
                     back = calc_gross(entry.v, net, overflow_checks)
             ELSE back = net

\* a positive amount queried under a status the system lacks, in a system
\* that has a schedule for another status
C14_Witness ==
    /\ pc = "sys_netted"
    /\ ~sys_lhs.brackets[status].some
    /\ \E k \in Statuses : sys_lhs.brackets[k].some
    /\ amount # Zero
    /\ net = amount

\* C15: the merged system has a schedule for exactly the statuses either
\* side has; a status of one side keeps that side's schedule, a status of
\* both sides has the merge of the two schedules, whose tax is the sum.
C15_SystemMerge ==
    pc = "sys_merged" =>
        /\ sys_merged.ok
        /\ \A k \in Statuses :
              LET l == sys_lhs.brackets[k]
                  r == sys_rhs.brackets[k]
                  m == sys_merged.brackets[k]
              IN /\ m.some <=> (l.some \/ r.some)
                 /\ (l.some /\ ~r.some) => m = l
                 /\ (~l.some /\ r.some) => m = r
                 /\ (l.some /\ r.some) =>
                       /\ m.v = merge(l.v, r.v)
                       /\ \A g \in Amounts :
                             calc_taxes(m.v, g)
                                 = RAdd(calc_taxes(l.v, g), calc_taxes(r.v, g))

\* all four cases at once: a status of lhs only, of rhs only, of both with
\* different schedules, and of neither
C15_Witness ==
    /\ pc = "sys_merged"
    /\ \E a, b, c, d \in Statuses :
          /\ sys_lhs.brackets[a].some /\ ~sys_rhs.brackets[a].some
          /\ ~sys_lhs.brackets[b].some /\ sys_rhs.brackets[b].some
          /\ sys_lhs.brackets[c].some /\ sys_rhs.brackets[c].some
          /\ sys_lhs.brackets[c].v.separators # sys_rhs.brackets[c].v.separators
          /\ Len(sys_merged.brackets[c].v.separators) = 2
          /\ ~sys_lhs.brackets[d].some /\ ~sys_rhs.brackets[d].some

\* the tax layer i of the location charges on g under status s
LayerTaxes(i, g, s) ==
    IF layers[i].some THEN TaxSystem_calc_taxes(layers[i].v, g, s) ELSE Zero

NoLayers == <<None, None, None>>

\* every lookup of the sequence l returned: each layer is absent or a system
LayersExist(l) == \A i \in 1..Len(l) : ~l[i].some \/ l[i].v.ok

\* C20: the tax of a location is the sum of the taxes of its present layers,
\* under every status and at every amount; a location without any layer has
\* zero tax and identity net and gross.
C20_Stacking ==
    /\ (pc = "loc_taxed" /\ LayersExist(layers)) =>
          taxes = RAdd(RAdd(LayerTaxes(1, amount, status),
                            LayerTaxes(2, amount, status)),
                       LayerTaxes(3, amount, status))
    /\ (pc = "located" /\ LayersExist(layers)) =>
          /\ loc_sys.some /\ loc_sys.v.ok
          /\ \A s \in Statuses, g \in LocAmounts :
                TaxSystem_calc_taxes(loc_sys.v, g, s)
                    = RAdd(RAdd(LayerTaxes(1, g, s), LayerTaxes(2, g, s)),
                           LayerTaxes(3, g, s))
    /\ \A s \in Statuses, g \in LocAmounts :
          /\ Location_calc_taxes(NoLayers, g, s) = Zero
          /\ Location_calc_net(NoLayers, g, s) = g
          /\ \A overflow_checks \in BOOLEAN :
                Location_calc_gross(NoLayers, g, s, overflow_checks) = g

\* three present layers, each taxing the queried amount under the queried
\* status
C20_Witness ==
    /\ pc = "loc_taxed"
    /\ \A i \in 1..3 : layers[i].some /\ LayerTaxes(i, amount, status) # Zero
    /\ layers[1].v.brackets[status].v.separators
           # layers[2].v.brackets[status].v.separators
    /\ RLt(Zero, taxes) /\ RLt(taxes, amount)

\* C21: whenever all rates of lhs and of rhs are in [0, 1), every rate of
\* merge(lhs, rhs) is in [0, 1).
C21_MergeKeepsRates ==
    (pc = "merged" /\ Valid(lhs) /\ Valid(rhs)) =>
        merged.ok /\ RatesValid(merged.rates)

\* C22: for every valid schedule and every net amount n, calc_gross(n)
\* succeeds and calc_net(calc_gross(n)) = n.
C22_InverseRoundTrip ==
    /\ (pc = "inverse" /\ Valid(lhs)) => (~IsPanic(back) /\ back # Wrapped)
    /\ (pc = "renetted" /\ Valid(lhs)) => net_again = net

\* a net amount above the first post-tax separator of a schedule whose
\* selected bracket has a positive rate and a positive flat deduction
C22_Witness ==
    /\ pc = "renetted"
    /\ Valid(lhs)
    /\ gross_lookup(lhs, net) >= 2
    /\ lhs.rates[gross_lookup(lhs, net)] # Zero
    /\ lhs.flats[gross_lookup(lhs, net)] # Zero
    /\ RLt(net, back)
    /\ net_again = net

\* C23: estimating for a target with the layers of the citizen's home
\* returns the citizen's income: in post_tax mode always, in disposable mode
\* whenever twelve times the monthly expenses do not exceed the net income.
C23_SameLocation ==
    (/\ pc = "estimated"
     /\ LayersExist(Location_layers(citizen.home))
     /\ Location_layers(target) = Location_layers(citizen.home)) =>
        LET net_home == Location_calc_net(Location_layers(citizen.home),
                                          citizen.income, citizen.status)
            annual == RMul(FromInteger(MonthsPerYear), citizen.monthly_expenses)
        IN /\ mode = "PostTax" => estimate = citizen.income
           /\ (mode = "Disposable" /\ RLe(annual, net_home)) =>
                 estimate = citizen.income

\* a citizen of San Francisco taxed by all three layers, with expenses,
\* estimated in disposable mode for the same city under its other name,
\* where living costs differ from elsewhere
C23_Witness ==
    /\ pc = "estimated"
    /\ target # citizen.home
    /\ Location_layers(target) = Location_layers(citizen.home)
    /\ \A i \in 1..3 : Location_layers(target)[i].some
                       /\ Location_layers(target)[i].v.ok
    /\ mode = "Disposable"
    /\ citizen.monthly_expenses # Zero
    /\ get_living_costs_factor(tables, target) # One
    /\ RLt(Location_calc_net(Location_layers(citizen.home),
                             citizen.income, citizen.status), citizen.income)
    /\ estimate = citizen.income

\* C24: for the same separators and rates the copy in main.rs computes the
\* same flat deductions as the copy in brackets.rs, and calc_taxes,
\* calc_gross and merge return equal results.
C24_CopiesAgree ==
    /\ pc = "copies" => main_copy.lhs = lhs /\ main_copy.rhs = rhs
    /\ pc = "copies_taxed" => main_out = taxes
    /\ pc = "copies_inverted" => main_out = back
    /\ pc = "copies_merged" => main_out = merged

====
